---------------------------- MODULE Spec2Model ----------------------------
(***************************************************************************)
(* A model of dingtalk-moltbot-connector: the response renderer            *)
(* (MoltbotChatbotHandler.process), the streaming adapter                  *)
(* (_stream_from_gateway), the token cache (media.py) and the config       *)
(* resolver (ConnectorConfig).                                             *)
(*                                                                         *)
(* Text is modelled by TLA+ strings and Python's + / f-strings by \o.      *)
(* The Chinese literals of the source are transliterated to ASCII.         *)
(***************************************************************************)
EXTENDS Integers, Sequences, FiniteSets, TLC

VARIABLES
    \* ---- config.py
    environ,        \* os.environ restricted to the five variables
    args,           \* the arguments the constructor was called with
    config,         \* the ConnectorConfig after __post_init__
    cfg_pc,         \* "new" | "built"
    \* ---- media.py
    token_cache,    \* _token_cache: client id -> (token, expires_at) or absent
    now,            \* time.time()
    fetches,        \* number of GETs to the token endpoint
    token_call,     \* the last get_dingtalk_access_token call: answer and result
    \* ---- the environment of one process() call
    callback,       \* the inbound CallbackMessage
    gateway,        \* what the gateway will answer to the chat request
    \* ---- handler.py: process()
    pc,             \* position in process()
    user_content,
    card,           \* result of ai_markdown_card_start (after the except)
    card_raised,    \* whether ai_markdown_card_start raised
    accumulated,    \* card mode buffer
    full_response,  \* text mode buffer
    exc,            \* the exception bound to e in the running handler
    ret,            \* what process() returned
    updates,        \* arguments of the card.ai_streaming calls, in order
    finishes,       \* arguments of the card.ai_finish calls, in order
    replies,        \* arguments of the reply_text calls, in order
    \* ---- handler.py: _stream_from_gateway()
    adapter,        \* "new" | "open" | "ended" | "raised" | "abandoned"
    headers,        \* request headers
    messages,       \* payload["messages"] of the request
    requests,       \* number of chat requests opened
    pos,            \* event lines consumed so far
    yielded,        \* what the generator yielded, in order
    \* ---- connector.py: MoltbotConnector
    client,         \* self._client
    stop_flag,      \* self._stop (threading.Event)
    start_pc,       \* position of the thread running start()
    start_exc,      \* the exception start() ended with
    stop_pc,        \* position of the thread running stop()
    thread_pc,      \* position of the background thread running _run
    thread_exc,     \* the exception caught in _run
    effects,        \* what start() and the listener did, in order
    validate_exc,   \* what a direct config.validate() call raised
    \* ---- media.py: get_dingtalk_access_token calls running as threads
    calls,          \* thread -> the state of its call
    issued          \* the (client id, token) pairs the token endpoint issued

cfgVars == <<environ, args, config, cfg_pc>>
tokVars == <<token_cache, now, fetches, token_call>>
envVars == <<callback, gateway>>
procVars == <<pc, user_content, card, card_raised, accumulated, full_response,
              exc, ret, updates, finishes, replies>>
adapterVars == <<adapter, headers, messages, requests, pos, yielded>>
connVars == <<client, stop_flag, start_pc, start_exc, stop_pc, thread_pc,
              thread_exc, effects, validate_exc>>
callVars == <<calls, issued>>
vars == <<cfgVars, tokVars, envVars, procVars, adapterVars, connVars, callVars>>

-----------------------------------------------------------------------------
(* Bounds *)

\* longest event-line sequence of a gateway answer in the renderer runs
MaxLines == 3
\* longest event-line sequence in the adapter runs (full line alphabet)
MaxFrames == 2
\* time.time() when a run begins
Now0 == 10000
\* get_dingtalk_access_token calls in a token run, over all threads
MaxCalls == 2
\* how often the clock advances in the token runs, and by how much
MaxTicks == 2
TickLen == 300

-----------------------------------------------------------------------------
(* config.py *)

UNSET == "__UNSET__"

Fields == {"dingtalk_client_id", "dingtalk_client_secret", "gateway_url",
           "model", "gateway_token"}

\* _ENV_DEFAULTS: field -> (environment variable, default)
ENV_DEFAULTS ==
    [f \in Fields |->
        CASE f = "dingtalk_client_id"     -> <<"DINGTALK_CLIENT_ID", "">>
          [] f = "dingtalk_client_secret" -> <<"DINGTALK_CLIENT_SECRET", "">>
          [] f = "gateway_url"            -> <<"MOLTBOT_GATEWAY_URL", "http://127.0.0.1:18789">>
          [] f = "model"                  -> <<"MOLTBOT_MODEL", "default">>
          [] f = "gateway_token"          -> <<"MOLTBOT_GATEWAY_TOKEN", "">>]

EnvKeys == {ENV_DEFAULTS[f][1] : f \in Fields}

\* os.environ.get(env_key, ""): environ is a function on the keys that are set
EnvironGet(env, key) == IF key \in DOMAIN env THEN env[key] ELSE ""

\* A mutant of ResolveField: falls back whenever the argument is falsy
ResolveFieldFalsy(env, f, value) ==
    IF value = UNSET \/ value = ""
    THEN LET env_val == EnvironGet(env, ENV_DEFAULTS[f][1])
         IN  IF env_val # "" THEN env_val ELSE ENV_DEFAULTS[f][2]
    ELSE value

\* one round of the loop of __post_init__
ResolveField(env, f, value) ==
    IF value = UNSET
    THEN LET env_val == EnvironGet(env, ENV_DEFAULTS[f][1])
         IN  IF env_val # "" THEN env_val ELSE ENV_DEFAULTS[f][2]
    ELSE value

\* ConnectorConfig(**a).__post_init__(): a gives every dataclass field
PostInit(env, a) ==
    [k \in DOMAIN a |-> IF k \in Fields THEN ResolveField(env, k, a[k]) ELSE a[k]]

\* the dataclass defaults
ConfigDefaults ==
    [dingtalk_client_id |-> UNSET, dingtalk_client_secret |-> UNSET,
     gateway_url |-> UNSET, model |-> UNSET, system_prompt |-> "",
     enable_media_upload |-> TRUE, gateway_token |-> UNSET]

\* ConnectorConfig(**kw): the fields not given keep the dataclass defaults
WithDefaults(kw) ==
    [k \in DOMAIN ConfigDefaults |-> IF k \in DOMAIN kw THEN kw[k] ELSE ConfigDefaults[k]]

-----------------------------------------------------------------------------
(* Python values *)

\* None, where a str is expected
None == "<None>"

\* an exception: its class and str(e)
Exception(type, text) == [type |-> type, text |-> text]
NoException == Exception("", "")

-----------------------------------------------------------------------------
(* media.py *)

\* "expires_in - 300": the margin by which a token is refreshed early
SafetyMargin == 300
\* data.get("expires_in", 7200)
DefaultExpiresIn == 7200

\* What the token endpoint answers: raises (network error, or resp.json()
\* failing), or a JSON object holding the keys in "keys".
TokenResponse(raises, keys, errcode, access_token, expires_in) ==
    [raises |-> raises, keys |-> keys, errcode |-> errcode,
     access_token |-> access_token, expires_in |-> expires_in]

\* data.get(key, default) on the response object
DataGet(resp, key, default) == IF key \in resp.keys THEN resp[key] ELSE default

\* the answers of the token endpoint in the model
TokenResponses ==
    { TokenResponse(TRUE, {}, 0, "", 0),                                             \* network error
      TokenResponse(FALSE, {"errcode", "access_token", "expires_in"}, 0, "T_new", 7200),
      TokenResponse(FALSE, {"errcode", "access_token"}, 0, "T_new", 0),              \* no expires_in
      TokenResponse(FALSE, {"errcode"}, 0, "", 0),                                   \* no access_token
      TokenResponse(FALSE, {"errcode"}, 40001, "", 0),                               \* refused
      TokenResponse(FALSE, {}, 0, "", 0) }                                           \* no errcode

\* A mutant of Fresh: an entry is still served at the instant it expires
FreshUntilExpiry(entry, t) == t <= entry.expires_at

\* "time.time() < expires_at": whether a cached entry is served at time t
Fresh(entry, t) == t < entry.expires_at

\* data.get("errcode") == 0, on a response that was read and parsed
Succeeded(resp) == ~resp.raises /\ "errcode" \in resp.keys /\ resp.errcode = 0

\* the pair stored for an accepted answer at time t
Entry(resp, t) ==
    [token |-> DataGet(resp, "access_token", ""),
     expires_at |-> t + DataGet(resp, "expires_in", DefaultExpiresIn) - SafetyMargin]

\* A mutant of StoreAnswer: the entry is dropped when the fetch fails
StoreAnswerOrEvict(cache, t, client_id, resp) ==
    IF Succeeded(resp)
    THEN [ret |-> Entry(resp, t).token,
          cache |-> [k \in DOMAIN cache \cup {client_id} |->
                        IF k = client_id THEN Entry(resp, t) ELSE cache[k]]]
    ELSE [ret |-> None,
          cache |-> [k \in DOMAIN cache \ {client_id} |-> cache[k]]]

\* A mutant of StoreAnswer: the accepted entry is written to every key
StoreAnswerAllKeys(cache, t, client_id, resp) ==
    IF Succeeded(resp)
    THEN [ret |-> Entry(resp, t).token,
          cache |-> [k \in DOMAIN cache \cup {client_id} |-> Entry(resp, t)]]
    ELSE [ret |-> None, cache |-> cache]

\* the try block once the endpoint has answered resp, at time t: the value
\* returned and the cache afterwards
StoreAnswer(cache, t, client_id, resp) ==
    IF Succeeded(resp)
    THEN [ret |-> Entry(resp, t).token,
          cache |-> [k \in DOMAIN cache \cup {client_id} |->
                        IF k = client_id THEN Entry(resp, t) ELSE cache[k]]]
    ELSE [ret |-> None, cache |-> cache]

\* get_dingtalk_access_token(client_id, client_secret) at time t, when the
\* endpoint would answer resp: the value returned, the cache afterwards and
\* whether the endpoint was asked.
GetToken(cache, t, client_id, resp) ==
    IF client_id \in DOMAIN cache /\ Fresh(cache[client_id], t)
    THEN [ret |-> cache[client_id].token, cache |-> cache, fetched |-> FALSE]
    ELSE [ret |-> StoreAnswer(cache, t, client_id, resp).ret,
          cache |-> StoreAnswer(cache, t, client_id, resp).cache,
          fetched |-> TRUE]

\* the instructional template with the token formatted in
MediaTemplate(access_token) == "MEDIA_GUIDE(access_token=" \o access_token \o ")"

\* what build_media_system_prompt returns for the value get_token returned
MediaPrompt(access_token) ==
    IF access_token = None \/ access_token = "" THEN "" ELSE MediaTemplate(access_token)

-----------------------------------------------------------------------------
(* JSON values as json.loads builds them, and the Python operations the     *)
(* adapter applies to them                                                  *)

JObj(f) == [t |-> "dict", v |-> f]
JArr(s) == [t |-> "list", v |-> s]
JStr(s) == [t |-> "str", v |-> s]
JNum(n) == [t |-> "int", v |-> n]
JNull   == [t |-> "NoneType", v |-> 0]
EmptyDict == JObj(<<>>)

\* bool(x)
Truthy(x) ==
    CASE x.t = "dict"     -> DOMAIN x.v # {}
      [] x.t = "list"     -> Len(x.v) > 0
      [] x.t = "str"      -> x.v # ""
      [] x.t = "int"      -> x.v # 0
      [] x.t = "NoneType" -> FALSE

\* hasattr(x, "get"): only a dict has .get
HasGet(x) == x.t = "dict"

\* d.get(key, default) for a dict d
DictGet(d, key, default) == IF key \in DOMAIN d.v THEN d.v[key] ELSE default

\* x.get(...) on a value that is no dict
AttributeError(x) ==
    Exception("AttributeError", "'" \o x.t \o "' object has no attribute 'get'")

\* x[0] of a truthy x: whether it raises, and what
Index0Raises(x) == x.t \in {"dict", "int"}
Index0Error(x) ==
    IF x.t = "dict" THEN Exception("KeyError", "0")
    ELSE Exception("TypeError", "'" \o x.t \o "' object is not subscriptable")
\* x[0] of a non-empty list; of a non-empty str it is a str again, of which
\* the adapter only uses the type
Index0(x) == IF x.t = "list" THEN x.v[1] ELSE x

-----------------------------------------------------------------------------
(* The event lines of the model: the text httpx's aiter_lines() delivers   *)

Envelope(content) == JObj([choices |-> JArr(<<JObj([delta |-> JObj([content |-> content])])>>)])

P_DONE         == "[DONE]"
P_HI           == "{\"choices\":[{\"delta\":{\"content\":\"Hi\"}}]}"
P_THERE        == "{\"choices\":[{\"delta\":{\"content\":\" there\"}}]}"
P_EMPTYCONTENT == "{\"choices\":[{\"delta\":{\"content\":\"\"}}]}"
P_NULLCONTENT  == "{\"choices\":[{\"delta\":{\"content\":null}}]}"
P_NUMCONTENT   == "{\"choices\":[{\"delta\":{\"content\":7}}]}"
P_NOCHOICES    == "{\"choices\":[]}"
P_NODELTA      == "{\"choices\":[{\"finish_reason\":\"stop\"}]}"
P_BADJSON      == "{\"choices\":[{\"delta\":{\"cont"
P_NUMBER       == "5"
P_STRCHOICE    == "{\"choices\":[\"x\"]}"
P_NULLDELTA    == "{\"choices\":[{\"delta\":null}]}"

Payloads == {P_DONE, P_HI, P_THERE, P_EMPTYCONTENT, P_NULLCONTENT, P_NUMCONTENT,
             P_NOCHOICES, P_NODELTA, P_BADJSON, P_NUMBER, P_STRCHOICE, P_NULLDELTA}

DataLine(p) == "data: " \o p
L_EMPTY == ""
L_EVENT == "event: message"
\* the marker without the space after the colon: no "data: " prefix
L_DONE_NOSPACE == "data:[DONE]"

AllLines == {DataLine(p) : p \in Payloads} \cup {L_EMPTY, L_EVENT, L_DONE_NOSPACE}

\* line.startswith("data: ")
StartsWithData(line) == \E p \in Payloads : line = DataLine(p)
\* line[6:]
Data(line) == CHOOSE p \in Payloads : line = DataLine(p)

\* json.loads(data): the value, or JSONDecodeError
JsonLoads(data) ==
    CASE data = P_HI           -> [ok |-> TRUE, value |-> Envelope(JStr("Hi"))]
      [] data = P_THERE        -> [ok |-> TRUE, value |-> Envelope(JStr(" there"))]
      [] data = P_EMPTYCONTENT -> [ok |-> TRUE, value |-> Envelope(JStr(""))]
      [] data = P_NULLCONTENT  -> [ok |-> TRUE, value |-> Envelope(JNull)]
      [] data = P_NUMCONTENT   -> [ok |-> TRUE, value |-> Envelope(JNum(7))]
      [] data = P_NOCHOICES    -> [ok |-> TRUE, value |-> JObj([choices |-> JArr(<<>>)])]
      [] data = P_NODELTA      -> [ok |-> TRUE, value |->
                                    JObj([choices |-> JArr(<<JObj([finish_reason |-> JStr("stop")])>>)])]
      [] data = P_NUMBER       -> [ok |-> TRUE, value |-> JNum(5)]
      [] data = P_STRCHOICE    -> [ok |-> TRUE, value |-> JObj([choices |-> JArr(<<JStr("x")>>)])]
      [] data = P_NULLDELTA    -> [ok |-> TRUE, value |->
                                    JObj([choices |-> JArr(<<JObj([delta |-> JNull])>>)])]
      [] OTHER                 -> [ok |-> FALSE, value |-> JNull]

-----------------------------------------------------------------------------
(* handler.py: _stream_from_gateway, one event line *)

\* what one round of the loop over the lines does
Step(kind, content, e) == [kind |-> kind, content |-> content, exc |-> e]
Skip       == Step("continue", JNull, NoException)
Break      == Step("break", JNull, NoException)
Yield(c)   == Step("yield", c, NoException)
Raise(e)   == Step("raise", JNull, e)

\* the body of the try of lines 132-142, for the value json.loads returned
HandleChunk(chunk) ==
    IF ~HasGet(chunk) THEN Raise(AttributeError(chunk))
    ELSE LET choices == DictGet(chunk, "choices", JArr(<<>>)) IN
    IF ~Truthy(choices) THEN Skip
    ELSE IF Index0Raises(choices) THEN Raise(Index0Error(choices))
    ELSE LET first == Index0(choices) IN
    IF ~HasGet(first) THEN Raise(AttributeError(first))
    ELSE LET delta == DictGet(first, "delta", EmptyDict) IN
    IF ~HasGet(delta) THEN Raise(AttributeError(delta))
    ELSE LET content == DictGet(delta, "content", JStr("")) IN
    IF Truthy(content) THEN Yield(content) ELSE Skip

\* one round of "async for line in response.aiter_lines()"
HandleLine(line) ==
    IF line = "" \/ ~StartsWithData(line) THEN Skip
    ELSE LET data == Data(line) IN
         IF data = "[DONE]" THEN Break
         ELSE LET r == JsonLoads(data) IN
              IF ~r.ok THEN Skip ELSE HandleChunk(r.value)

-----------------------------------------------------------------------------
(* handler.py: the pieces of process() and of the request construction *)

\* AckMessage.STATUS_OK, AckMessage.STATUS_SYSTEM_EXCEPTION
STATUS_OK == "STATUS_OK"
STATUS_SYSTEM_EXCEPTION == "STATUS_SYSTEM_EXCEPTION"
NoReturn == [status |-> "", message |-> ""]

\* the literals of lines 50, 61 and 65 and of line 122
Marker      == "\n\n[!] response interrupted: "
Placeholder == "(no response)"
ErrorPrefix == "Sorry, the request failed: "
GatewayErrorText(status, body) == "Gateway returned " \o ToString(status) \o ": " \o body

\* str.strip() on the inbound texts of the model
Strip(s) ==
    CASE s = " hello " -> "hello"
      [] s = "  "      -> ""
      [] OTHER         -> s

\* the value of card after lines 35-39
NoCard == [exists |-> FALSE, card_instance_id |-> ""]
Card(id) == [exists |-> TRUE, card_instance_id |-> id]

\* "if card and card.card_instance_id"
CardMode(c) == c.exists /\ c.card_instance_id # ""

\* A mutant of Accumulate: the buffer keeps only the last fragment
AccumulateDelta(buffer, chunk) == chunk

\* "accumulated += chunk", "full_response += chunk"
Accumulate(buffer, chunk) == buffer \o chunk

\* line 50: the buffer after the marker was appended
InterruptionText(buffer, e) == buffer \o Marker \o e.text

\* line 61: full_response or the placeholder
ReplyBody(full) == IF full = "" THEN Placeholder ELSE full

\* line 65
ErrorReply(e) == ErrorPrefix \o e.text

Message(role, content) == [role |-> role, content |-> content]

\* A mutant of BuildMessages: the caller's prompt before the media guidance
BuildMessagesSwapped(cfg, media_prompt, text) ==
    (IF cfg.system_prompt # "" THEN <<Message("system", cfg.system_prompt)>> ELSE <<>>)
    \o (IF media_prompt # "" THEN <<Message("system", media_prompt)>> ELSE <<>>)
    \o <<Message("user", text)>>

\* lines 89-104; media_prompt is "" when the upload guidance is off
BuildMessages(cfg, media_prompt, text) ==
    (IF media_prompt # "" THEN <<Message("system", media_prompt)>> ELSE <<>>)
    \o (IF cfg.system_prompt # "" THEN <<Message("system", cfg.system_prompt)>> ELSE <<>>)
    \o <<Message("user", text)>>

\* lines 84-86
BuildHeaders(cfg) ==
    IF cfg.gateway_token # ""
    THEN [h \in {"Content-Type", "Authorization"} |->
            IF h = "Content-Type" THEN "application/json"
            ELSE "Bearer " \o cfg.gateway_token]
    ELSE [h \in {"Content-Type"} |-> "application/json"]

\* the exceptions of the collaborators
PayloadError  == Exception("AttributeError", "'NoneType' object has no attribute 'content'")
CardStartError == Exception("CardError", "card create failed")
UpdateError   == Exception("CardError", "card streaming failed")
FinishError   == Exception("CardError", "card finish failed")
ReplyError    == Exception("ReplyError", "reply failed")
ConnectError  == Exception("ConnectError", "All connection attempts failed")
ReadError     == Exception("ReadError", "peer closed connection")
ConcatError(chunk) ==
    Exception("TypeError", "can only concatenate str (not \"" \o chunk.t \o "\") to str")
GatewayError(status, body) == Exception("RuntimeError", GatewayErrorText(status, body))

-----------------------------------------------------------------------------
(* handler.py: process() and the generator it drives, step by step *)

\* where control goes when the loop over the generator ends / raises
AfterLoop == IF CardMode(card) THEN "card_finish" ELSE "text_reply"
Handler   == IF CardMode(card) THEN "card_except" ELSE "text_except"

\* lines 30-31: parse the callback and strip the text; a payload without
\* text raises into the outer handler (lines 69-71)
ParseCallback ==
    /\ pc = "start"
    /\ IF callback.has_text
       THEN /\ user_content' = Strip(callback.content)
            /\ pc' = "card_start"
            /\ ret' = ret
       ELSE /\ user_content' = user_content
            /\ pc' = "done"
            /\ ret' = [status |-> STATUS_SYSTEM_EXCEPTION, message |-> PayloadError.text]
    /\ UNCHANGED <<cfgVars, tokVars, envVars, connVars, callVars, adapterVars, card, card_raised,
                   accumulated, full_response, exc, updates, finishes, replies>>

\* lines 35-43, 58: create the card; the platform raises, returns no card,
\* a card without instance id, or a card
CardStart ==
    /\ pc = "card_start"
    /\ \E outcome \in {"raise", "none", "noid", "ok"} :
        /\ card' = CASE outcome = "raise" -> NoCard
                     [] outcome = "none"  -> NoCard
                     [] outcome = "noid"  -> Card("")
                     [] outcome = "ok"    -> Card("card-1")
        /\ card_raised' = (outcome = "raise")
    /\ accumulated' = ""
    /\ full_response' = ""
    /\ pc' = "stream"
    /\ UNCHANGED <<cfgVars, tokVars, envVars, connVars, callVars, adapterVars, user_content,
                   exc, ret, updates, finishes, replies>>

\* lines 84-124: the first __anext__ of the generator: headers, messages
\* (with the token lookup of build_media_system_prompt), the request, and the
\* check of the status
OpenGateway ==
    /\ pc = "stream" /\ adapter = "new"
    /\ \E resp \in TokenResponses :
        LET tok == IF config.enable_media_upload
                   THEN GetToken(token_cache, now, config.dingtalk_client_id, resp)
                   ELSE [ret |-> None, cache |-> token_cache, fetched |-> FALSE]
        IN  /\ token_cache' = tok.cache
            /\ fetches' = IF tok.fetched THEN fetches + 1 ELSE fetches
            /\ token_call' = IF config.enable_media_upload
                              THEN [called |-> TRUE, resp |-> resp, ret |-> tok.ret,
                                    fetched |-> tok.fetched]
                              ELSE token_call
            /\ messages' = BuildMessages(config, MediaPrompt(tok.ret), user_content)
    /\ headers' = BuildHeaders(config)
    /\ requests' = requests + 1
    /\ IF gateway.connect = "error"
       THEN adapter' = "raised" /\ pc' = Handler /\ exc' = ConnectError
       ELSE IF gateway.status # 200
       THEN /\ adapter' = "raised" /\ pc' = Handler
            /\ exc' = IF gateway.tail = "error" THEN ReadError
                      ELSE GatewayError(gateway.status, gateway.body)
       ELSE adapter' = "open" /\ pc' = pc /\ exc' = exc
    /\ UNCHANGED <<cfgVars, now, envVars, connVars, callVars, user_content, card, card_raised,
                   accumulated, full_response, ret, updates, finishes, replies,
                   pos, yielded>>

\* lines 45-47 and 59-60: the loop body for the chunk the generator yielded
Consume(chunk) ==
    IF chunk.t # "str"
    THEN /\ adapter' = "abandoned" /\ pc' = Handler /\ exc' = ConcatError(chunk)
         /\ UNCHANGED <<accumulated, full_response, updates>>
    ELSE IF CardMode(card)
    THEN /\ accumulated' = Accumulate(accumulated, chunk.v)
         /\ updates' = Append(updates, accumulated')
         /\ full_response' = full_response
         /\ \E ok \in BOOLEAN :
              IF ok THEN UNCHANGED <<adapter, pc, exc>>
              ELSE adapter' = "abandoned" /\ pc' = "card_except" /\ exc' = UpdateError
    ELSE /\ full_response' = Accumulate(full_response, chunk.v)
         /\ UNCHANGED <<accumulated, updates, adapter, pc, exc>>

\* lines 126-142: the generator reads one event line (or the end of the
\* stream, or a transport error) and the consumer handles what it gives
ReadLine ==
    /\ pc = "stream" /\ adapter = "open"
    /\ IF pos = Len(gateway.lines)
       THEN /\ IF gateway.tail = "eof"
               THEN adapter' = "ended" /\ pc' = AfterLoop /\ exc' = exc
               ELSE adapter' = "raised" /\ pc' = Handler /\ exc' = ReadError
            /\ UNCHANGED <<pos, yielded, accumulated, full_response, updates>>
       ELSE LET s == HandleLine(gateway.lines[pos + 1]) IN
            /\ pos' = pos + 1
            /\ CASE s.kind = "continue" ->
                      UNCHANGED <<adapter, pc, exc, yielded, accumulated,
                                  full_response, updates>>
                 [] s.kind = "break" ->
                      /\ adapter' = "ended" /\ pc' = AfterLoop
                      /\ UNCHANGED <<exc, yielded, accumulated, full_response, updates>>
                 [] s.kind = "raise" ->
                      /\ adapter' = "raised" /\ pc' = Handler /\ exc' = s.exc
                      /\ UNCHANGED <<yielded, accumulated, full_response, updates>>
                 [] s.kind = "yield" ->
                      /\ yielded' = Append(yielded, s.content)
                      /\ Consume(s.content)
    /\ UNCHANGED <<cfgVars, tokVars, envVars, connVars, callVars, user_content, card, card_raised,
                   ret, finishes, replies, headers, messages, requests>>

\* lines 48-51: append the marker and push it; when the push raises, the
\* exception leaves the inner handler and reaches lines 69-71
CardExcept ==
    /\ pc = "card_except"
    /\ accumulated' = InterruptionText(accumulated, exc)
    /\ updates' = Append(updates, accumulated')
    /\ \E ok \in BOOLEAN :
         IF ok THEN pc' = "card_finish" /\ ret' = ret
         ELSE /\ pc' = "done"
              /\ ret' = [status |-> STATUS_SYSTEM_EXCEPTION, message |-> UpdateError.text]
    /\ UNCHANGED <<cfgVars, tokVars, envVars, connVars, callVars, adapterVars, user_content, card,
                   card_raised, full_response, exc, finishes, replies>>

\* lines 53-54 and 67
CardFinish ==
    /\ pc = "card_finish"
    /\ finishes' = Append(finishes, accumulated)
    /\ \E ok \in BOOLEAN :
         ret' = IF ok THEN [status |-> STATUS_OK, message |-> "ok"]
                ELSE [status |-> STATUS_SYSTEM_EXCEPTION, message |-> FinishError.text]
    /\ pc' = "done"
    /\ UNCHANGED <<cfgVars, tokVars, envVars, connVars, callVars, adapterVars, user_content, card,
                   card_raised, accumulated, full_response, exc, updates, replies>>

\* lines 61-62 and 67: the reply is sent inside the try of line 57
TextReply ==
    /\ pc = "text_reply"
    /\ replies' = Append(replies, ReplyBody(full_response))
    /\ \E ok \in BOOLEAN :
         IF ok THEN /\ pc' = "done" /\ exc' = exc
                    /\ ret' = [status |-> STATUS_OK, message |-> "ok"]
         ELSE pc' = "text_except" /\ exc' = ReplyError /\ ret' = ret
    /\ UNCHANGED <<cfgVars, tokVars, envVars, connVars, callVars, adapterVars, user_content, card,
                   card_raised, accumulated, full_response, updates, finishes>>

\* lines 63-65 and 67
TextExcept ==
    /\ pc = "text_except"
    /\ replies' = Append(replies, ErrorReply(exc))
    /\ \E ok \in BOOLEAN :
         ret' = IF ok THEN [status |-> STATUS_OK, message |-> "ok"]
                ELSE [status |-> STATUS_SYSTEM_EXCEPTION, message |-> ReplyError.text]
    /\ pc' = "done"
    /\ UNCHANGED <<cfgVars, tokVars, envVars, connVars, callVars, adapterVars, user_content, card,
                   card_raised, accumulated, full_response, exc, updates, finishes>>

Next ==
    \/ ParseCallback
    \/ CardStart
    \/ OpenGateway
    \/ ReadLine
    \/ CardExcept
    \/ CardFinish
    \/ TextReply
    \/ TextExcept

-----------------------------------------------------------------------------
(* config.py: validate() *)

\* the ValueError of validate(), naming the missing field
ConfigError(field) ==
    Exception("ValueError", "missing " \o field \o ": pass it or set its environment variable")

\* A mutant of Validate: only the client id is required
ValidateIdOnly(cfg) ==
    IF cfg.dingtalk_client_id = "" THEN ConfigError("dingtalk_client_id")
    ELSE NoException

\* validate(): the exception it raises, NoException when it returns
Validate(cfg) ==
    IF cfg.dingtalk_client_id = "" THEN ConfigError("dingtalk_client_id")
    ELSE IF cfg.dingtalk_client_secret = "" THEN ConfigError("dingtalk_client_secret")
    ELSE NoException

\* a direct call of config.validate() on a constructed config
ValidateConfig ==
    /\ cfg_pc = "built"
    /\ validate_exc' = Validate(config)
    /\ cfg_pc' = "validated"
    /\ UNCHANGED <<environ, args, config, tokVars, envVars, procVars, adapterVars,
                   callVars, client, stop_flag, start_pc, start_exc, stop_pc,
                   thread_pc, thread_exc, effects>>

-----------------------------------------------------------------------------
(* connector.py: MoltbotConnector *)

\* the defaults of the parameters of MoltbotConnector.__init__
ConnectorDefaults ==
    [dingtalk_client_id |-> "", dingtalk_client_secret |-> "",
     gateway_url |-> "http://127.0.0.1:18789", model |-> "default",
     system_prompt |-> "", enable_media_upload |-> TRUE, gateway_token |-> ""]

\* what __init__ hands to ConnectorConfig: every parameter, given or not
ConnectorKwargs(kw) ==
    [k \in DOMAIN ConnectorDefaults |->
        IF k \in DOMAIN kw THEN kw[k] ELSE ConnectorDefaults[k]]

\* dingtalk_stream.DingTalkStreamClient(credential)
StreamClient == "DingTalkStreamClient"

\* self._client.<attr> when self._client is None
NoneAttributeError(attr) ==
    Exception("AttributeError", "'NoneType' object has no attribute '" \o attr \o "'")

\* start_forever() failing
ListenerError == Exception("ConnectionError", "stream closed")

\* the state of a connector nobody has constructed or used
ConnectorUnused ==
    /\ client = None
    /\ stop_flag = FALSE
    /\ start_pc = "idle"
    /\ start_exc = NoException
    /\ stop_pc = "idle"
    /\ thread_pc = "none"
    /\ thread_exc = NoException
    /\ effects = <<>>
    /\ validate_exc = NoException

\* the variables no connector step touches
restVars == <<tokVars, envVars, procVars, adapterVars, callVars, validate_exc>>

\* the arguments applications construct the connector with: none (as
\* from_env() does), the credentials, one credential, everything
ConnectorArgs ==
    { [k \in {} |-> ""],
      [dingtalk_client_id |-> "dingArg", dingtalk_client_secret |-> "secretArg"],
      [dingtalk_client_id |-> "dingArg"],
      [dingtalk_client_secret |-> "secretArg"],
      [dingtalk_client_id |-> "dingArg", dingtalk_client_secret |-> "secretArg",
       gateway_url |-> "http://gw.arg:1", model |-> "modelArg",
       gateway_token |-> "tokenArg"] }

\* MoltbotConnector(**kw), and from_env() which is cls()
ConnectorInit ==
    /\ cfg_pc = "new"
    /\ \E kw \in ConnectorArgs :
        /\ args' = kw
        /\ config' = PostInit(environ, WithDefaults(ConnectorKwargs(kw)))
    /\ cfg_pc' = "built"
    /\ client' = None
    /\ stop_flag' = FALSE
    /\ UNCHANGED <<environ, restVars, start_pc, start_exc, stop_pc, thread_pc,
                   thread_exc, effects>>

\* start(): self.config.validate()
StartValidate ==
    /\ cfg_pc = "built"
    /\ start_pc = "idle"
    /\ IF Validate(config) # NoException
       THEN start_exc' = Validate(config) /\ start_pc' = "raised"
       ELSE start_pc' = "validated" /\ UNCHANGED start_exc
    /\ UNCHANGED <<cfgVars, restVars, client, stop_flag, stop_pc, thread_pc,
                   thread_exc, effects>>

\* start(): the credential and the stream client
StartCreateClient ==
    /\ start_pc = "validated"
    /\ client' = StreamClient
    /\ effects' = Append(effects, "client")
    /\ start_pc' = "created"
    /\ UNCHANGED <<cfgVars, restVars, stop_flag, start_exc, stop_pc, thread_pc,
                   thread_exc>>

\* start(): self._client.register_callback_handler(...)
StartRegister ==
    /\ start_pc = "created"
    /\ IF client = None
       THEN /\ start_exc' = NoneAttributeError("register_callback_handler")
            /\ start_pc' = "raised"
            /\ UNCHANGED effects
       ELSE /\ effects' = Append(effects, "register")
            /\ start_pc' = "registered"
            /\ UNCHANGED start_exc
    /\ UNCHANGED <<cfgVars, restVars, client, stop_flag, stop_pc, thread_pc,
                   thread_exc>>

\* start(): signal.signal for SIGINT and SIGTERM
StartSignals ==
    /\ start_pc = "registered"
    /\ effects' = Append(effects, "signals")
    /\ start_pc' = "signals"
    /\ UNCHANGED <<cfgVars, restVars, client, stop_flag, start_exc, stop_pc,
                   thread_pc, thread_exc>>

\* start(): thread.start()
StartThread ==
    /\ start_pc = "signals"
    /\ thread_pc' = "started"
    /\ effects' = Append(effects, "thread")
    /\ start_pc' = "waiting"
    /\ UNCHANGED <<cfgVars, restVars, client, stop_flag, start_exc, stop_pc,
                   thread_exc>>

\* start(): self._stop.wait() returns once the flag is set
StartWait ==
    /\ start_pc = "waiting"
    /\ stop_flag
    /\ start_pc' = "returned"
    /\ UNCHANGED <<cfgVars, restVars, client, stop_flag, start_exc, stop_pc,
                   thread_pc, thread_exc, effects>>

\* _handle_signal, once installed, on SIGINT or SIGTERM.  Before the
\* handlers are installed a signal is not the connector's to handle.
Signal ==
    /\ \E i \in 1..Len(effects) : effects[i] = "signals"
    /\ stop_flag' = TRUE
    /\ UNCHANGED <<cfgVars, restVars, client, start_pc, start_exc, stop_pc,
                   thread_pc, thread_exc, effects>>

\* _run: self._client.start_forever() is entered, or fails on the attribute
ListenerStart ==
    /\ thread_pc = "started"
    /\ IF client = None
       THEN /\ thread_exc' = NoneAttributeError("start_forever")
            /\ stop_flag' = TRUE
            /\ thread_pc' = "failed"
            /\ UNCHANGED effects
       ELSE /\ effects' = Append(effects, "connect")
            /\ thread_pc' = "running"
            /\ UNCHANGED <<thread_exc, stop_flag>>
    /\ UNCHANGED <<cfgVars, restVars, client, start_pc, start_exc, stop_pc>>

\* _run: start_forever() raises; the except clause sets the flag
ListenerRaise ==
    /\ thread_pc = "running"
    /\ thread_exc' = ListenerError
    /\ stop_flag' = TRUE
    /\ thread_pc' = "failed"
    /\ UNCHANGED <<cfgVars, restVars, client, start_pc, start_exc, stop_pc, effects>>

\* _run: start_forever() returns
ListenerReturn ==
    /\ thread_pc = "running"
    /\ thread_pc' = "ended"
    /\ UNCHANGED <<cfgVars, restVars, client, stop_flag, start_pc, start_exc,
                   stop_pc, thread_exc, effects>>

\* stop(), called by another thread: self._stop.set()
StopSet ==
    /\ cfg_pc = "built"
    /\ stop_pc = "idle"
    /\ stop_flag' = TRUE
    /\ stop_pc' = "set"
    /\ UNCHANGED <<cfgVars, restVars, client, start_pc, start_exc, thread_pc,
                   thread_exc, effects>>

\* stop(): self._client = None
StopDrop ==
    /\ stop_pc = "set"
    /\ client' = None
    /\ stop_pc' = "returned"
    /\ UNCHANGED <<cfgVars, restVars, stop_flag, start_pc, start_exc, thread_pc,
                   thread_exc, effects>>

StartStep ==
    StartValidate \/ StartCreateClient \/ StartRegister \/ StartSignals
    \/ StartThread \/ StartWait

NextConnector ==
    \/ ConnectorInit
    \/ StartValidate
    \/ StartCreateClient
    \/ StartRegister
    \/ StartSignals
    \/ StartThread
    \/ StartWait
    \/ Signal
    \/ ListenerStart
    \/ ListenerRaise
    \/ ListenerReturn
    \/ StopSet
    \/ StopDrop

-----------------------------------------------------------------------------
(* media.py: get_dingtalk_access_token calls, statement by statement, each  *)
(* call running in a thread of its own                                      *)

\* _token_cache.get(cache_key) finding nothing
NoEntry == [token |-> None, expires_at |-> 0]

\* the client identifiers the callers use
Clients == {"dingA", "dingB"}

\* the token the endpoint issues to client_id at its n-th request
TokenOf(client_id, n) == client_id \o "-token-" \o ToString(n)

\* What the endpoint may answer to the n-th request, from client_id.  An
\* answer that "raises" stands for everything the try block can raise: the
\* GET failing, or a body resp.json() cannot parse.
UpstreamAnswers(client_id, n) ==
    { TokenResponse(TRUE, {}, 0, "", 0),
      TokenResponse(FALSE, {"errcode", "access_token", "expires_in"}, 0,
                    TokenOf(client_id, n), 300),
      TokenResponse(FALSE, {"errcode", "access_token", "expires_in"}, 0,
                    TokenOf(client_id, n), 600),
      TokenResponse(FALSE, {"errcode", "access_token"}, 0, TokenOf(client_id, n), 0),
      TokenResponse(FALSE, {"errcode"}, 0, "", 0),
      TokenResponse(FALSE, {"errcode"}, 40001, "", 0),
      TokenResponse(FALSE, {}, 0, "", 0) }

\* a thread that has not called yet
IdleCall ==
    [pc |-> "idle", n |-> 0, client_id |-> "", cached |-> NoEntry, t_check |-> 0,
     resp |-> TokenResponse(TRUE, {}, 0, "", 0), t_store |-> 0,
     fetched |-> FALSE, ret |-> None]

\* no thread calls get_dingtalk_access_token on its own
NoCalls ==
    /\ calls = [i \in {} |-> IdleCall]
    /\ issued = {}

\* the variables no such call touches
otherVars == <<cfgVars, envVars, procVars, adapterVars, connVars, token_call>>

\* the calls made so far by the threads in T
RECURSIVE CallsMade(_)
CallsMade(T) ==
    IF T = {} THEN 0
    ELSE LET i == CHOOSE j \in T : TRUE
         IN  calls[i].n + CallsMade(T \ {i})

\* cached = _token_cache.get(cache_key)
CallLookup(i) ==
    /\ calls[i].pc \in {"idle", "done"}
    /\ CallsMade(DOMAIN calls) < MaxCalls
    /\ \E c \in Clients :
        calls' = [calls EXCEPT ![i] =
                    [IdleCall EXCEPT !.pc = "check", !.n = calls[i].n + 1,
                                     !.client_id = c,
                                     !.cached = IF c \in DOMAIN token_cache
                                                THEN token_cache[c] ELSE NoEntry]]
    /\ UNCHANGED <<otherVars, token_cache, now, fetches, issued>>

\* if cached: token, expires_at = cached; if time.time() < expires_at: return token
CallCheck(i) ==
    /\ calls[i].pc = "check"
    /\ IF calls[i].cached # NoEntry /\ Fresh(calls[i].cached, now)
       THEN calls' = [calls EXCEPT ![i].pc = "done", ![i].t_check = now,
                                   ![i].ret = calls[i].cached.token]
       ELSE calls' = [calls EXCEPT ![i].pc = "fetch", ![i].t_check = now]
    /\ UNCHANGED <<otherVars, token_cache, now, fetches, issued>>

\* resp = httpx.get(...): the endpoint answers
CallFetch(i) ==
    /\ calls[i].pc = "fetch"
    /\ \E resp \in UpstreamAnswers(calls[i].client_id, fetches + 1) :
        /\ calls' = [calls EXCEPT ![i].pc = "answer", ![i].resp = resp,
                                  ![i].fetched = TRUE]
        /\ issued' = IF Succeeded(resp)
                     THEN issued \cup {[client_id |-> calls[i].client_id,
                                        token |-> DataGet(resp, "access_token", ""),
                                        validity |-> DataGet(resp, "expires_in",
                                                             DefaultExpiresIn)]}
                     ELSE issued
    /\ fetches' = fetches + 1
    /\ UNCHANGED <<otherVars, token_cache, now>>

\* the rest of the try block and the except clause
CallStore(i) ==
    /\ calls[i].pc = "answer"
    /\ LET r == StoreAnswer(token_cache, now, calls[i].client_id, calls[i].resp)
       IN  /\ token_cache' = r.cache
           /\ calls' = [calls EXCEPT ![i].pc = "done", ![i].t_store = now,
                                     ![i].ret = r.ret]
    /\ UNCHANGED <<otherVars, now, fetches, issued>>

\* time passes
Tick ==
    /\ now < Now0 + MaxTicks * TickLen
    /\ now' = now + TickLen
    /\ UNCHANGED <<otherVars, token_cache, fetches, calls, issued>>

NextToken ==
    \/ \E i \in DOMAIN calls : CallLookup(i)
    \/ \E i \in DOMAIN calls : CallCheck(i)
    \/ \E i \in DOMAIN calls : CallFetch(i)
    \/ \E i \in DOMAIN calls : CallStore(i)
    \/ Tick

-----------------------------------------------------------------------------
(* Initial states: the inputs of one process() call *)

NoEnviron == [k \in {} |-> ""]
NoTokenCall == [called |-> FALSE, resp |-> TokenResponse(TRUE, {}, 0, "", 0),
                ret |-> None, fetched |-> FALSE]

ClientId == "dingAPP"

\* the arguments of an application that passes its credentials
HandlerKwargs(system_prompt, enable_media_upload, gateway_token) ==
    [dingtalk_client_id |-> ClientId,
     dingtalk_client_secret |-> "secret",
     system_prompt |-> system_prompt,
     enable_media_upload |-> enable_media_upload,
     gateway_token |-> gateway_token]

\* the inbound payloads: one without text, and texts
Payload(has_text, content) == [has_text |-> has_text, content |-> content]

\* the token cache when the message arrives: empty, a valid entry, an entry
\* that expires now
EmptyCache == [k \in {} |-> [token |-> "", expires_at |-> 0]]
CacheOf(token, expires_at) ==
    [k \in {ClientId} |-> [token |-> token, expires_at |-> expires_at]]

\* sequences over A of length at most n
SeqsUpTo(A, n) == UNION {[1..k -> A] : k \in 0..n}

\* what the gateway answers: a transport error on connect, a non-200 status
\* with a body (tail "error": reading the body fails), or 200 and event lines
\* ended by EOF or by a transport error
Answer(connect, status, body, lines, tail) ==
    [connect |-> connect, status |-> status, body |-> body, lines |-> lines, tail |-> tail]
Answers(A, n) ==
    {Answer("error", 0, "", <<>>, "eof"),
     Answer("ok", 500, "server error", <<>>, "eof"),
     Answer("ok", 500, "server error", <<>>, "error"),
     Answer("ok", 404, "", <<>>, "eof")}
    \cup {Answer("ok", 200, "", ls, tail) : ls \in SeqsUpTo(A, n), tail \in {"eof", "error"}}

InitWith(Callbacks, Kwargs, Caches, Gateways) ==
    /\ environ = NoEnviron
    /\ args \in Kwargs
    /\ config = PostInit(environ, WithDefaults(args))
    /\ cfg_pc = "built"
    /\ token_cache \in Caches
    /\ now = Now0
    /\ fetches = 0
    /\ token_call = NoTokenCall
    /\ callback \in Callbacks
    /\ gateway \in Gateways
    /\ pc = "start"
    /\ user_content = ""
    /\ card = NoCard
    /\ card_raised = FALSE
    /\ accumulated = ""
    /\ full_response = ""
    /\ exc = NoException
    /\ ret = NoReturn
    /\ updates = <<>>
    /\ finishes = <<>>
    /\ replies = <<>>
    /\ adapter = "new"
    /\ headers = NoEnviron
    /\ messages = <<>>
    /\ requests = 0
    /\ pos = 0
    /\ yielded = <<>>
    /\ ConnectorUnused
    /\ NoCalls

\* The renderer runs: every way the stream and the platform calls can go
RendererLines == {DataLine(P_HI), DataLine(P_THERE), DataLine(P_BADJSON),
                  DataLine(P_DONE), DataLine(P_NULLDELTA)}
Init ==
    InitWith({Payload(FALSE, ""), Payload(TRUE, "hello")},
             {HandlerKwargs("", FALSE, "")},
             {EmptyCache},
             Answers(RendererLines, MaxLines))
Spec == Init /\ [][Next]_vars

\* The adapter runs: every event line of the model
InitAdapter ==
    InitWith({Payload(TRUE, "hello")},
             {HandlerKwargs("", FALSE, "")},
             {EmptyCache},
             Answers(AllLines, MaxFrames))
SpecAdapter == InitAdapter /\ [][Next]_vars

\* The request runs: every config, inbound text, cache state and token answer
InitRequest ==
    InitWith({Payload(FALSE, ""), Payload(TRUE, "hello"), Payload(TRUE, " hello "),
              Payload(TRUE, "  ")},
             {HandlerKwargs(sp, m, gt) : sp \in {"", "Be brief."}, m \in BOOLEAN,
                                         gt \in {"", "gw-secret"}},
             {EmptyCache, CacheOf("T_cached", Now0 + 1), CacheOf("T_old", Now0),
              CacheOf("", Now0 + 1)},
             Answers({DataLine(P_HI)}, 1))
SpecRequest == InitRequest /\ [][Next]_vars

-----------------------------------------------------------------------------
(* The renderer: claims C1 - C6 *)

\* f1 + ... + fk for the first k chunks the generator yielded
RECURSIVE Concat(_, _)
Concat(chunks, k) == IF k = 0 THEN "" ELSE Concat(chunks, k - 1) \o chunks[k].v

\* the inbound message is handled in card mode / in text-fallback mode
InCardMode == pc \notin {"start", "card_start"} /\ CardMode(card)
InTextMode == pc \notin {"start", "card_start"} /\ ~CardMode(card) /\ callback.has_text

\* the generator ran to its end: every fragment of the answer was yielded
StreamCompleted == adapter = "ended"

\* C1: in card mode, when the adapter yields f1..fn and ends without error,
\* the card got exactly n updates, the k-th carrying f1+...+fk, and, once
\* process() has returned, one finish call carrying f1+...+fn; while the
\* fragments arrive the updates made so far are these whole-buffer prefixes
\* and no finish call was made.
C1_CardStreamsWholeBuffer ==
    /\ (InCardMode /\ (StreamCompleted \/ pc = "stream")) =>
          /\ Len(updates) = Len(yielded)
          /\ \A k \in 1..Len(yielded) : updates[k] = Concat(yielded, k)
    /\ (InCardMode /\ pc = "stream") => finishes = <<>>
    /\ (InCardMode /\ StreamCompleted /\ pc = "done") =>
          finishes = <<Concat(yielded, Len(yielded))>>

\* scenario 1 of the spec: "Hi", " there" -> updates "Hi", "Hi there", finish "Hi there"
C1_Witness ==
    /\ InCardMode /\ StreamCompleted /\ pc = "done"
    /\ yielded = <<JStr("Hi"), JStr(" there")>>
    /\ updates = <<"Hi", "Hi there">>
    /\ finishes = <<"Hi there">>

\* C2: for a message handled in card mode, the finish call was made exactly
\* once when process() has returned.
C2_FinishExactlyOnce ==
    (InCardMode /\ pc = "done") => Len(finishes) = 1

\* the text of the reply the claim expects in text-fallback mode
ExpectedReply ==
    IF StreamCompleted
    THEN (IF Concat(yielded, Len(yielded)) = "" THEN Placeholder
          ELSE Concat(yielded, Len(yielded)))
    ELSE ErrorPrefix \o exc.text

\* C3: in text-fallback mode no card update or finish call is made, no reply
\* is sent while fragments arrive, and exactly one reply call was made when
\* process() has returned: the whole answer (or the placeholder), or the
\* error message with the exception text.
C3_TextModeOneReply ==
    /\ InTextMode => (updates = <<>> /\ finishes = <<>>)
    /\ (InTextMode /\ pc = "stream") => replies = <<>>
    /\ (InTextMode /\ pc = "done") => (Len(replies) = 1 /\ replies[1] = ExpectedReply)

\* the chat request failed: a non-200 status, or a transport error while the
\* event lines were read
GatewayFailed ==
    /\ adapter = "raised" /\ gateway.connect = "ok"
    /\ \/ gateway.status # 200
       \/ exc = ReadError

\* C4: whenever the gateway call failed, process() returns STATUS_OK after the
\* failure was shown to the user: as the last card update (buffer, marker and
\* exception text) or as the error reply.
C4_GatewayFailureAcknowledgedOk ==
    (GatewayFailed /\ pc = "done") =>
        /\ ret.status = STATUS_OK
        /\ IF CardMode(card)
           THEN updates # <<>> /\
                updates[Len(updates)] = Concat(yielded, Len(yielded)) \o Marker \o exc.text
           ELSE replies = <<ErrorPrefix \o exc.text>>

\* C5: process() returns STATUS_OK or STATUS_SYSTEM_EXCEPTION, and the latter
\* only when no card update, card finish or reply call was made before.
C5_SystemExceptionOnlyBeforeAnyReply ==
    pc = "done" =>
        /\ ret.status \in {STATUS_OK, STATUS_SYSTEM_EXCEPTION}
        /\ ret.status = STATUS_SYSTEM_EXCEPTION =>
              (updates = <<>> /\ finishes = <<>> /\ replies = <<>>)

\* C6: in card mode, when the adapter raised after k fragments, the card got
\* the k whole-buffer updates, then exactly one update with the buffer, the
\* marker and the exception text, and then one finish call with that content.
C6_InterruptionShownAndFinished ==
    (InCardMode /\ adapter = "raised" /\ pc = "done") =>
        LET k == Len(yielded)
            shown == Concat(yielded, k) \o Marker \o exc.text
        IN  /\ Len(updates) = k + 1
            /\ \A i \in 1..k : updates[i] = Concat(yielded, i)
            /\ updates[k + 1] = shown
            /\ finishes = <<shown>>

-----------------------------------------------------------------------------
(* The adapter: claims C7, C8 *)

\* the well-formed data lines that carry a non-empty choices[0].delta.content
ContentLines == {DataLine(P_HI), DataLine(P_THERE), DataLine(P_NUMCONTENT)}
ContentOf(line) ==
    CASE line = DataLine(P_HI)         -> JStr("Hi")
      [] line = DataLine(P_THERE)      -> JStr(" there")
      [] line = DataLine(P_NUMCONTENT) -> JNum(7)

\* the data lines whose payload is malformed: no JSON, or JSON that is not
\* the envelope (a non-object value, a non-object choices[0], a null delta)
MalformedLines == {DataLine(P_BADJSON), DataLine(P_NUMBER), DataLine(P_STRCHOICE),
                   DataLine(P_NULLDELTA)}

\* the contents of the content lines among the first n lines that precede
\* the first termination marker
RECURSIVE ContentsBeforeDone(_, _)
ContentsBeforeDone(lines, n) ==
    IF n = 0 THEN <<>>
    ELSE IF \E i \in 1..n : lines[i] = DataLine(P_DONE) THEN ContentsBeforeDone(lines, n - 1)
    ELSE IF lines[n] \in ContentLines
    THEN Append(ContentsBeforeDone(lines, n - 1), ContentOf(lines[n]))
    ELSE ContentsBeforeDone(lines, n - 1)

\* the consumer took every chunk and the transport delivered every line
WholeAnswerRead ==
    /\ gateway.connect = "ok" /\ gateway.status = 200 /\ gateway.tail = "eof"
    /\ adapter \in {"ended", "raised"}

\* C7: on a 200 response the adapter yields exactly the non-empty contents of
\* the well-formed data lines before the first "data: [DONE]", in order.
C7_YieldsContentsBeforeDone ==
    WholeAnswerRead => yielded = ContentsBeforeDone(gateway.lines, Len(gateway.lines))

\* C8: the adapter never fails on a malformed data line: it skips the frame.
C8_MalformedFrameSkipped ==
    ~ ( /\ adapter = "raised" /\ pos > 0
        /\ gateway.lines[pos] \in MalformedLines
        /\ exc # ReadError )

-----------------------------------------------------------------------------
(* The request: claim C9 *)

RequestSent == requests > 0

\* get_dingtalk_access_token returned a non-empty token
TokenObtained == token_call.called /\ token_call.ret # None /\ token_call.ret # ""

\* the endpoint was asked and did not issue a token
TokenFetchFailed ==
    /\ token_call.called /\ token_call.fetched
    /\ \/ token_call.resp.raises
       \/ "errcode" \notin token_call.resp.keys
       \/ token_call.resp.errcode # 0

IsMediaGuidance(m) == m.role = "system" /\ m.content = MediaTemplate(token_call.ret)
IsCallerPrompt(m)  == m.role = "system" /\ m.content = config.system_prompt

\* C9: the messages of the request are, in this order, the media guidance
\* (exactly when enable_media_upload is set and the token lookup returned a
\* non-empty token), the caller's system prompt (exactly when it is not
\* empty) and one user message with the (stripped) inbound text; a failed
\* token fetch leaves the guidance out and the request is sent all the same.
C9_MessageList ==
    /\ RequestSent =>
        LET n == Len(messages)
            media == config.enable_media_upload /\ TokenObtained
            prompt == config.system_prompt # ""
        IN  /\ n = 1 + (IF media THEN 1 ELSE 0) + (IF prompt THEN 1 ELSE 0)
            /\ messages[n] = Message("user", Strip(callback.content))
            /\ \A i \in 1..(n - 1) : messages[i].role = "system"
            /\ media => IsMediaGuidance(messages[1])
            /\ prompt => IsCallerPrompt(messages[n - 1])
            /\ token_call.called = config.enable_media_upload
            /\ TokenFetchFailed => ~media
    /\ (callback.has_text /\ pc \notin {"start", "card_start", "stream"}) => RequestSent
    /\ requests <= 1

\* media guidance, caller prompt and user message, with a freshly fetched token
C9_Witness ==
    /\ RequestSent /\ Len(messages) = 3 /\ token_call.fetched
    /\ messages[1].content = MediaTemplate("T_new")
    /\ messages[2].content = "Be brief."
    /\ messages[3] = Message("user", "hello")
    /\ callback.content = " hello "

-----------------------------------------------------------------------------
(* config.py: constructing a ConnectorConfig; claim C10 *)

ArgValue(f) == "arg:" \o f
EnvValue(key) == "env:" \o key

\* the keyword arguments of the five env-backed fields: each is left out,
\* or given as the empty string, as a value, or as the text of the sentinel
KwArgs ==
    UNION { { [f \in S |-> IF f \in E THEN "" ELSE IF f \in U THEN UNSET ELSE ArgValue(f)]
              : E \in SUBSET S, U \in SUBSET S }
            : S \in SUBSET Fields }

\* the environment: each variable is unset, set to the empty string, or set
Environs ==
    UNION { { [k \in S |-> IF k \in E THEN "" ELSE EnvValue(k)] : E \in SUBSET S }
            : S \in SUBSET EnvKeys }

\* ConnectorConfig(**kw): the dataclass __init__ and __post_init__
ConstructConfig ==
    /\ cfg_pc = "new"
    /\ \E kw \in KwArgs :
        /\ args' = kw
        /\ config' = PostInit(environ, WithDefaults(kw))
    /\ cfg_pc' = "built"
    /\ UNCHANGED <<environ, tokVars, envVars, connVars, callVars, procVars, adapterVars>>

InitConfig ==
    /\ environ \in Environs
    /\ args = NoEnviron
    /\ config = ConfigDefaults
    /\ cfg_pc = "new"
    /\ token_cache = EmptyCache
    /\ now = Now0
    /\ fetches = 0
    /\ token_call = NoTokenCall
    /\ callback = Payload(FALSE, "")
    /\ gateway = Answer("error", 0, "", <<>>, "eof")
    /\ pc = "idle"
    /\ user_content = ""
    /\ card = NoCard
    /\ card_raised = FALSE
    /\ accumulated = ""
    /\ full_response = ""
    /\ exc = NoException
    /\ ret = NoReturn
    /\ updates = <<>>
    /\ finishes = <<>>
    /\ replies = <<>>
    /\ adapter = "new"
    /\ headers = NoEnviron
    /\ messages = <<>>
    /\ requests = 0
    /\ pos = 0
    /\ yielded = <<>>
    /\ ConnectorUnused
    /\ NoCalls

NextConfig ==
    \/ ConstructConfig
    \/ ValidateConfig

SpecConfig == InitConfig /\ [][NextConfig]_vars

\* the environment variable and the fixed default of each field, as the
\* external interface documents them
EnvNameOf(f) ==
    CASE f = "dingtalk_client_id"     -> "DINGTALK_CLIENT_ID"
      [] f = "dingtalk_client_secret" -> "DINGTALK_CLIENT_SECRET"
      [] f = "gateway_url"            -> "MOLTBOT_GATEWAY_URL"
      [] f = "model"                  -> "MOLTBOT_MODEL"
      [] f = "gateway_token"          -> "MOLTBOT_GATEWAY_TOKEN"
DefaultOf(f) ==
    CASE f = "gateway_url" -> "http://127.0.0.1:18789"
      [] f = "model"       -> "default"
      [] OTHER             -> ""

\* what the precedence rule gives when the argument does not decide
EnvOrDefault(f) ==
    IF EnvNameOf(f) \in DOMAIN environ /\ environ[EnvNameOf(f)] # ""
    THEN environ[EnvNameOf(f)]
    ELSE DefaultOf(f)

\* C10 as claimed: each env-backed field resolves to the explicit argument
\* whenever one was supplied, otherwise to the environment variable when it
\* is set (to a non-empty value), otherwise to the default.
C10_ExplicitAlwaysWins ==
    cfg_pc = "built" =>
        \A f \in Fields :
            config[f] = IF f \in DOMAIN args THEN args[f] ELSE EnvOrDefault(f)

\* C10, amended: each env-backed field resolves to the explicit argument when
\* one was supplied and is not the sentinel text (an empty string is kept);
\* otherwise to the environment variable when it is set to a non-empty
\* value; otherwise to the default.
C10_ConfigPrecedence ==
    cfg_pc = "built" =>
        \A f \in Fields :
            config[f] = IF f \in DOMAIN args /\ args[f] # UNSET THEN args[f]
                        ELSE EnvOrDefault(f)

\* an explicitly empty gateway_url is kept although the variable is set, and
\* the model, not supplied and with its variable set to "", gets the default
C10_Witness ==
    /\ cfg_pc = "built"
    /\ "gateway_url" \in DOMAIN args /\ args["gateway_url"] = ""
    /\ "MOLTBOT_GATEWAY_URL" \in DOMAIN environ
    /\ environ["MOLTBOT_GATEWAY_URL"] = EnvValue("MOLTBOT_GATEWAY_URL")
    /\ config["gateway_url"] = ""
    /\ "model" \notin DOMAIN args
    /\ "MOLTBOT_MODEL" \in DOMAIN environ /\ environ["MOLTBOT_MODEL"] = ""
    /\ config["model"] = "default"

-----------------------------------------------------------------------------
(* config.py: validate(); claim C12 *)

\* C12: validate() raises the configuration error exactly when the resolved
\* client id or the resolved client secret is the empty string, and the call
\* leaves every config field as it was.
C12_ValidateRaisesExactlyOnEmptyCredential ==
    /\ [](cfg_pc = "validated" =>
            /\ (validate_exc # NoException) <=>
                   (config.dingtalk_client_id = "" \/ config.dingtalk_client_secret = "")
            /\ validate_exc # NoException => validate_exc.type = "ValueError")
    /\ [][cfg_pc' = "validated" => config' = config]_vars

\* the client id came from the environment, the secret resolved to "":
\* validate() raised
C12_Witness ==
    /\ cfg_pc = "validated"
    /\ "dingtalk_client_id" \notin DOMAIN args
    /\ config.dingtalk_client_id = EnvValue("DINGTALK_CLIENT_ID")
    /\ config.dingtalk_client_secret = ""
    /\ validate_exc = ConfigError("dingtalk_client_secret")

-----------------------------------------------------------------------------
(* connector.py: the runs of one connector; claims C11, C15, C16, C19 *)

\* no message is being handled and no token was asked for
HandlerIdle ==
    /\ token_cache = EmptyCache
    /\ now = Now0
    /\ fetches = 0
    /\ token_call = NoTokenCall
    /\ callback = Payload(FALSE, "")
    /\ gateway = Answer("error", 0, "", <<>>, "eof")
    /\ pc = "idle"
    /\ user_content = ""
    /\ card = NoCard
    /\ card_raised = FALSE
    /\ accumulated = ""
    /\ full_response = ""
    /\ exc = NoException
    /\ ret = NoReturn
    /\ updates = <<>>
    /\ finishes = <<>>
    /\ replies = <<>>
    /\ adapter = "new"
    /\ headers = NoEnviron
    /\ messages = <<>>
    /\ requests = 0
    /\ pos = 0
    /\ yielded = <<>>

InitConnector ==
    /\ environ \in Environs
    /\ args = NoEnviron
    /\ config = ConfigDefaults
    /\ cfg_pc = "new"
    /\ HandlerIdle
    /\ ConnectorUnused
    /\ NoCalls

SpecConnector == InitConnector /\ [][NextConnector]_vars

\* the threads of start() and of the listener are scheduled, and a stop()
\* that began runs to its end; signals, stop() calls and listener failures
\* may or may not come
SpecConnectorLive ==
    /\ InitConnector
    /\ [][NextConnector]_vars
    /\ WF_vars(StartStep)
    /\ WF_vars(ListenerStart)
    /\ WF_vars(StopDrop)

\* the connector was built with no arguments, as from_env() builds it
BuiltFromEnv == cfg_pc = "built" /\ DOMAIN args = {}

\* an environment variable is set (to a non-empty value)
IsSet(key) == key \in DOMAIN environ /\ environ[key] # ""

\* C11: a connector built by from_env() (or with no arguments) has, for each
\* of the five env-backed fields, the value of the field's environment
\* variable when that variable is set, and its start() passes validation
\* when the two credential variables are set.
C11_FromEnvReadsEnvironment ==
    BuiltFromEnv =>
        /\ \A f \in Fields :
              IsSet(EnvNameOf(f)) => config[f] = environ[EnvNameOf(f)]
        /\ (IsSet("DINGTALK_CLIENT_ID") /\ IsSet("DINGTALK_CLIENT_SECRET")) =>
              ~(start_pc = "raised" /\ start_exc.type = "ValueError")

\* a credential resolved to the empty string
EmptyCredential ==
    config.dingtalk_client_id = "" \/ config.dingtalk_client_secret = ""

\* start() is past validation and has not ended
StartRunning ==
    start_pc \in {"validated", "created", "registered", "signals", "waiting"}

\* C15: start() returns only when the stop flag is set; the flag is never
\* cleared once set; and once the flag is set (by a signal, by stop() or by
\* the listener failing) a running start() eventually returns.
C15_StartReturnsIffStopFlag ==
    /\ [](start_pc = "returned" => stop_flag)
    /\ [][stop_flag => stop_flag']_vars
    /\ ((StartRunning /\ stop_flag) ~> (start_pc = "returned"))

\* C16: when the client id or the client secret resolves to empty, start()
\* ends with the configuration error and nothing else was done: no client
\* was created, no handler registered, no signal handler installed, no
\* thread started and no connection opened.
C16_ConfigErrorBeforeAnyStep ==
    (cfg_pc = "built" /\ EmptyCredential /\ start_pc # "idle") =>
        /\ start_pc = "raised"
        /\ start_exc.type = "ValueError"
        /\ effects = <<>>
        /\ client = None
        /\ thread_pc = "none"

\* only the secret is missing: start() raised the error that names it
C16_Witness ==
    /\ cfg_pc = "built"
    /\ config.dingtalk_client_id = "dingArg"
    /\ config.dingtalk_client_secret = ""
    /\ start_pc = "raised"
    /\ start_exc = ConfigError("dingtalk_client_secret")
    /\ effects = <<>>

\* C19: once stop() has returned the stop flag is set and the connector
\* holds no client reference, whatever start() and the listener thread do
\* meanwhile, and the listener thread never fails on a dropped reference.
C19_StopDropsClientSafely ==
    /\ stop_pc = "returned" => (stop_flag /\ client = None)
    /\ thread_exc # NoneAttributeError("start_forever")

-----------------------------------------------------------------------------
(* media.py: the token cache; claims C13, C14, C18 *)

InitToken(Threads) ==
    /\ environ = NoEnviron
    /\ args = NoEnviron
    /\ config = ConfigDefaults
    /\ cfg_pc = "new"
    /\ HandlerIdle
    /\ ConnectorUnused
    /\ calls = [i \in Threads |-> IdleCall]
    /\ issued = {}

\* calls made one after the other
InitTokenSeq == InitToken({1})
SpecTokenSeq == InitTokenSeq /\ [][NextToken]_vars

\* calls made by two threads at once
InitTokenRace == InitToken({1, 2})
SpecTokenRace == InitTokenRace /\ [][NextToken]_vars

\* the entry stored for a client identifier, if any
StoredEntry(client_id) ==
    IF client_id \in DOMAIN token_cache THEN token_cache[client_id] ELSE NoEntry

\* the fetch of a call succeeded and the answer carries a token and a validity
IssuedToken(c) ==
    /\ c.fetched
    /\ Succeeded(c.resp)
    /\ {"access_token", "expires_in"} \subseteq c.resp.keys

\* C13: in a sequence of calls, a call made while the time precedes the
\* stored expiry returns the cached token without a fetch; a call made at or
\* after the stored expiry (or with nothing stored) fetches, and a successful
\* fetch replaces the entry by the new token with expiry = time of the fetch
\* + issued validity - 300; no token is served from the cache at or after its
\* expiry.
C13_CacheServesUntilExpiry ==
    \A i \in DOMAIN calls :
        LET c == calls[i]
        IN  /\ c.pc = "check" => c.cached = StoredEntry(c.client_id)
            /\ c.pc \in {"fetch", "answer", "done"} =>
                  IF c.cached # NoEntry /\ c.t_check < c.cached.expires_at
                  THEN c.pc = "done" /\ ~c.fetched /\ c.ret = c.cached.token
                  ELSE c.pc = "done" => c.fetched
            /\ (c.pc = "done" /\ ~c.fetched) =>
                  /\ c.ret = StoredEntry(c.client_id).token
                  /\ c.t_check < StoredEntry(c.client_id).expires_at
            /\ (c.pc = "done" /\ IssuedToken(c)) =>
                  /\ c.ret = c.resp.access_token
                  /\ StoredEntry(c.client_id) =
                        [token |-> c.resp.access_token,
                         expires_at |-> c.t_store + c.resp.expires_in - 300]

\* a call made at the very instant the stored entry expires fetched a new
\* token, which replaced the entry
C13_Witness ==
    \E i \in DOMAIN calls :
        LET c == calls[i]
        IN  /\ c.pc = "done"
            /\ c.cached # NoEntry
            /\ c.t_check = c.cached.expires_at
            /\ IssuedToken(c)
            /\ c.ret # c.cached.token
            /\ StoredEntry(c.client_id).token = c.ret

\* C14: a call whose fetch failed (network error or unparsable answer, an
\* error code other than 0, or no error code) returns None, and the step
\* that handles the failed answer leaves the cache exactly as it was.
C14_FailedFetchLeavesCache ==
    /\ [](\A i \in DOMAIN calls :
            (calls[i].pc = "done" /\ calls[i].fetched /\ ~Succeeded(calls[i].resp))
                => calls[i].ret = None)
    /\ [][\A i \in DOMAIN calls :
            (calls[i].pc = "answer" /\ calls'[i].pc = "done" /\ ~Succeeded(calls[i].resp))
                => token_cache' = token_cache]_vars

\* a refused fetch, made because the stored entry had expired, returned None
\* and the expired entry is still there
C14_Witness ==
    \E i \in DOMAIN calls :
        /\ calls[i].pc = "done"
        /\ calls[i].fetched
        /\ calls[i].resp.errcode = 40001
        /\ calls[i].ret = None
        /\ calls[i].cached # NoEntry
        /\ StoredEntry(calls[i].client_id) = calls[i].cached

\* no token: None, or the empty text build_media_system_prompt treats alike
Absent(x) == x = None \/ x = ""

\* the instants the clock of a token run can show
Instants == {Now0 + j * TickLen : j \in 0..MaxTicks}

\* C18: under every interleaving of the calls, each call returns no token or
\* a token the endpoint issued to the call's own client identifier, and each
\* cache entry is the whole pair of one successful fetch for its own key:
\* that fetch's token with that fetch's validity.
C18_RacesOnlyRepeatFetches ==
    /\ \A i \in DOMAIN calls :
          calls[i].pc = "done" =>
              \/ Absent(calls[i].ret)
              \/ \E x \in issued : /\ x.client_id = calls[i].client_id
                                   /\ x.token = calls[i].ret
    /\ \A k \in DOMAIN token_cache :
          \E x \in issued :
              /\ x.client_id = k
              /\ token_cache[k].token = x.token
              /\ \E t \in Instants :
                    /\ t <= now
                    /\ token_cache[k].expires_at = t + x.validity - SafetyMargin

\* a race: both threads, in their first call and at the same instant, found
\* nothing cached for the same client and fetched; the entry is the one of
\* the thread that stored last
C18_Witness ==
    /\ DOMAIN calls = {1, 2}
    /\ \A i \in {1, 2} : /\ calls[i].pc = "done" /\ calls[i].n = 1
                         /\ calls[i].cached = NoEntry
                         /\ IssuedToken(calls[i])
                         /\ calls[i].resp.expires_in = 600
                         /\ calls[i].t_check = Now0
    /\ calls[1].client_id = calls[2].client_id
    /\ calls[1].ret # calls[2].ret
    /\ fetches = 2
    /\ StoredEntry(calls[1].client_id).token = calls[1].ret

-----------------------------------------------------------------------------
(* handler.py: card failure and retries; claims C17, C20 *)

\* card creation is over, whatever it gave
CardAttempted == pc \notin {"idle", "start", "card_start"}

\* C17: when card creation raised, the message is handled in text-fallback
\* mode to the end: the gateway is called, a reply is sent and process()
\* returns STATUS_OK.  Card mode is entered only with a card that has a
\* non-empty instance id; an exception, no card or an empty instance id are
\* all handled in text-fallback mode (no card update, no finish call).
C17_CardFailureFallsBackToText ==
    /\ (card_raised /\ CardAttempted) => InTextMode
    /\ (card_raised /\ pc = "done") =>
          /\ requests = 1
          /\ replies # <<>>
          /\ ret.status = STATUS_OK
    /\ (CardAttempted /\ callback.has_text) =>
          IF card.exists /\ card.card_instance_id # ""
          THEN InCardMode
          ELSE InTextMode /\ updates = <<>> /\ finishes = <<>>

\* the gateway call or the streaming to the card failed
StreamFailed == adapter \in {"raised", "abandoned"}

\* the user got to see a message for this inbound message: in card mode the
\* update before the finish call went through, in text-fallback mode the
\* last reply call did
MessageShown ==
    IF CardMode(card) THEN finishes # <<>> ELSE ret.status = STATUS_OK

\* C20: process() opens at most one chat request and makes at most one token
\* fetch; when the gateway call, the card creation or the streaming failed
\* the user got a message, and when the token lookup gave no token the
\* request was sent without the media guidance.
C20_NothingRetried ==
    /\ requests <= 1
    /\ fetches <= 1
    /\ (pc = "done" /\ callback.has_text /\ (StreamFailed \/ card_raised)) => MessageShown
    /\ (RequestSent /\ token_call.called /\ Absent(token_call.ret)) =>
          \A i \in 1..Len(messages) :
              messages[i].role = "system" => messages[i].content = config.system_prompt

=============================================================================
